---- MODULE Spec2Model ----
(***************************************************************************)
(* go-file-organizer (src/main.go): scan one directory level, classify     *)
(* every entry by extension, then process every record in its own          *)
(* goroutine (validate, create the category directory, move the file),     *)
(* funnelling failures through an unbuffered channel that a closer         *)
(* goroutine closes after the WaitGroup barrier while main ranges over it. *)
(*                                                                         *)
(* Names are sequences of one-character strings, so that filepath.Ext,     *)
(* strings.ToLower and strings.TrimSpace are computed, not assumed.        *)
(* A path is a sequence of names relative to the -dir argument.            *)
(* File.ModTime and the deferred timing line of processFile carry no       *)
(* control flow and are left out of the state.                             *)
(***************************************************************************)
EXTENDS Integers, Sequences, FiniteSets, TLC

\* ---------------------------------------------------------------- bounds
MaxEntries == 2       \* entries in the scanned directory
MaxFaults == 1        \* system calls the host filesystem may refuse in a run
MaxUnreadable == 1    \* entries whose metadata read fails

\* ----------------------------------------------------------------- names
N_blank == <<" ">>
N_Docs  == <<"D", "o", "c", "s">>
N_Other == <<"O", "t", "h", "e", "r">>
N_aPDF  == <<"a", ".", "P", "D", "F">>
N_bpdf  == <<"b", ".", "p", "d", "f">>
N_cjpg  == <<"c", ".", "j", "p", "g">>

L_Images == <<"I", "m", "a", "g", "e", "s">>
L_Docs   == N_Docs
L_Videos == <<"V", "i", "d", "e", "o", "s">>
L_Audio  == <<"A", "u", "d", "i", "o">>
L_Folder == <<"F", "o", "l", "d", "e", "r">>
L_Other  == N_Other

\* byte values of the characters that occur in names (for ReadDir's order)
Byte ==
  (" " :> 32) @@ ("." :> 46) @@
  ("A" :> 65) @@ ("D" :> 68) @@ ("F" :> 70) @@ ("I" :> 73) @@ ("O" :> 79) @@
  ("P" :> 80) @@ ("V" :> 86) @@
  ("a" :> 97) @@ ("b" :> 98) @@ ("c" :> 99) @@ ("d" :> 100) @@
  ("e" :> 101) @@ ("f" :> 102) @@ ("g" :> 103) @@ ("h" :> 104) @@
  ("i" :> 105) @@ ("j" :> 106) @@ ("l" :> 108) @@ ("m" :> 109) @@
  ("o" :> 111) @@ ("p" :> 112) @@ ("r" :> 114) @@ ("s" :> 115) @@
  ("t" :> 116) @@ ("u" :> 117)

\* strings.ToLower on one character
LowerOf ==
  ("A" :> "a") @@ ("B" :> "b") @@ ("C" :> "c") @@ ("D" :> "d") @@
  ("E" :> "e") @@ ("F" :> "f") @@ ("G" :> "g") @@ ("H" :> "h") @@
  ("I" :> "i") @@ ("J" :> "j") @@ ("K" :> "k") @@ ("L" :> "l") @@
  ("M" :> "m") @@ ("N" :> "n") @@ ("O" :> "o") @@ ("P" :> "p") @@
  ("Q" :> "q") @@ ("R" :> "r") @@ ("S" :> "s") @@ ("T" :> "t") @@
  ("U" :> "u") @@ ("V" :> "v") @@ ("W" :> "w") @@ ("X" :> "x") @@
  ("Y" :> "y") @@ ("Z" :> "z")

ToLower(s) ==
  [i \in 1..Len(s) |-> IF s[i] \in DOMAIN LowerOf THEN LowerOf[s[i]] ELSE s[i]]

\* filepath.Ext: the suffix starting at the last "." of the last element
RECURSIVE ExtFrom(_, _)
ExtFrom(s, i) ==
  IF i = 0 \/ s[i] = "/" THEN <<>>
  ELSE IF s[i] = "." THEN SubSeq(s, i, Len(s))
  ELSE ExtFrom(s, i - 1)

Ext(s) == ExtFrom(s, Len(s))

WhiteSpace == {" ", "\t", "\n", "\r"}

\* strings.TrimSpace
RECURSIVE TrimLeft(_)
TrimLeft(s) ==
  IF s # <<>> /\ Head(s) \in WhiteSpace THEN TrimLeft(Tail(s)) ELSE s

RECURSIVE TrimRight(_)
TrimRight(s) ==
  IF s # <<>> /\ s[Len(s)] \in WhiteSpace
  THEN TrimRight(SubSeq(s, 1, Len(s) - 1)) ELSE s

TrimSpace(s) == TrimRight(TrimLeft(s))

\* filepath.Join(dir, name) and filepath.Dir(path) on paths
Join(dir, name) == Append(dir, name)

Dir(path) == SubSeq(path, 1, Len(path) - 1)

\* ------------------------------------------------------------ classifier
Categories_Overlap ==
  (L_Images :> << <<".", "j", "p", "g">>, <<".", "j", "p", "e", "g">>,
                  <<".", "p", "n", "g">>, <<".", "g", "i", "f">>,
                  <<".", "m", "d">> >>) @@
  (L_Docs   :> << <<".", "p", "d", "f">>, <<".", "d", "o", "c", "x">>,
                  <<".", "t", "x", "t">>, <<".", "m", "d">> >>) @@
  (L_Videos :> << <<".", "m", "p", "4">>, <<".", "m", "o", "v">>,
                  <<".", "a", "v", "i">>, <<".", "m", "k", "v">> >>) @@
  (L_Audio  :> << <<".", "m", "p", "3">>, <<".", "w", "a", "v">>,
                  <<".", "o", "g", "g">> >>)

Categories ==
  (L_Images :> << <<".", "j", "p", "g">>, <<".", "j", "p", "e", "g">>,
                  <<".", "p", "n", "g">>, <<".", "g", "i", "f">> >>) @@
  (L_Docs   :> << <<".", "p", "d", "f">>, <<".", "d", "o", "c", "x">>,
                  <<".", "t", "x", "t">>, <<".", "m", "d">> >>) @@
  (L_Videos :> << <<".", "m", "p", "4">>, <<".", "m", "o", "v">>,
                  <<".", "a", "v", "i">>, <<".", "m", "k", "v">> >>) @@
  (L_Audio  :> << <<".", "m", "p", "3">>, <<".", "w", "a", "v">>,
                  <<".", "o", "g", "g">> >>)

\* the orders in which a range over the Categories map may visit its keys
IterOrders ==
  {o \in [1..Cardinality(DOMAIN Categories) -> DOMAIN Categories] :
     \A i, j \in DOMAIN o : i # j => o[i] # o[j]}

InList_SkipsLast(e, exts) == \E k \in 1..(Len(exts) - 1) : exts[k] = e

InList(e, exts) == \E k \in 1..Len(exts) : exts[k] = e

\* the loop of Categorize over the table, visited in the given order
RECURSIVE FirstMatch(_, _, _)
FirstMatch(order, i, ext) ==
  IF i > Len(order) THEN L_Other
  ELSE IF InList(ext, Categories[order[i]]) THEN order[i]
  ELSE FirstMatch(order, i + 1, ext)

Categorize_IgnoresIsDir(f, order) ==
  [f EXCEPT !.Category = FirstMatch(order, 1, f.Extension)]

Categorize(f, order) ==
  IF f.IsDir THEN [f EXCEPT !.Category = L_Folder]
  ELSE [f EXCEPT !.Category = FirstMatch(order, 1, f.Extension)]

\* every record Categorize can produce, over the map's iteration orders
CategorizeAny(f) == {Categorize(g, o) : g \in {f}, o \in IterOrders}

\* ------------------------------------------------------------- validator
\* An error value is the sequence of its message parts, outermost first;
\* nil is the empty sequence.
Nil == <<>>

isFileValid_NoSizeCheck(file) ==
  IF file.IsDir THEN Nil
  ELSE IF TrimSpace(file.Name) = <<>> THEN <<"filename cannot be empty">>
  ELSE Nil

isFileValid_AcceptsEmpty(file) ==
  IF file.IsDir THEN Nil
  ELSE IF TrimSpace(file.Name) = <<>> THEN <<"filename cannot be empty">>
  ELSE IF file.Size < 0 THEN <<"file size must be positive">>
  ELSE Nil

isFileValid(file) ==
  IF file.IsDir THEN Nil
  ELSE IF TrimSpace(file.Name) = <<>> THEN <<"filename cannot be empty">>
  ELSE IF file.Size <= 0 THEN <<"file size must be positive">>
  ELSE Nil

\* ------------------------------------------------------------ filesystem
\* A filesystem maps each existing path to what is there.  A file carries
\* its size and the path it had when the run started (its identity).
DirNode == [kind |-> "dir", size |-> 4096, id |-> <<>>]

FileNode(size, id) == [kind |-> "file", size |-> size, id |-> id]

IsDirAt(f, p) == p \in DOMAIN f /\ f[p].kind = "dir"

IsFileAt(f, p) == p \in DOMAIN f /\ f[p].kind = "file"

\* byte-wise comparison of two names
RECURSIVE NameLess(_, _)
NameLess(a, b) ==
  IF b = <<>> THEN FALSE
  ELSE IF a = <<>> THEN TRUE
  ELSE IF Byte[Head(a)] # Byte[Head(b)] THEN Byte[Head(a)] < Byte[Head(b)]
  ELSE NameLess(Tail(a), Tail(b))

RECURSIVE SortNames(_)
SortNames(S) ==
  IF S = {} THEN <<>>
  ELSE LET m == CHOOSE x \in S : \A y \in S \ {x} : NameLess(x, y)
       IN  <<m>> \o SortNames(S \ {m})

\* os.ReadDir: the names directly under dir, sorted by filename
ReadDir(f, dir) ==
  SortNames({p[Len(p)] : p \in {q \in DOMAIN f : Len(q) = Len(dir) + 1 /\ Dir(q) = dir}})

\* the directory given by -dir
dirPath == <<>>

\* the File literal of scanDir, before Categorize
NewFile(f, name) ==
  [Name      |-> name,
   Path      |-> Join(dirPath, name),
   Size      |-> f[Join(dirPath, name)].size,
   IsDir     |-> f[Join(dirPath, name)].kind = "dir",
   Category  |-> <<>>,
   Extension |-> ToLower(Ext(name))]

RECURSIVE ScanFrom_Break(_, _, _, _)
ScanFrom_Break(f, entries, bad, i) ==
  IF i > Len(entries) THEN {<<>>}
  ELSE IF entries[i] \in bad THEN {<<>>}
  ELSE {<<c>> \o rest : c \in CategorizeAny(NewFile(f, entries[i])),
                        rest \in ScanFrom_Break(f, entries, bad, i + 1)}

\* the loop of scanDir from entry i on: every record list it can return
RECURSIVE ScanFrom(_, _, _, _)
ScanFrom(f, entries, bad, i) ==
  IF i > Len(entries) THEN {<<>>}
  ELSE IF entries[i] \in bad THEN ScanFrom(f, entries, bad, i + 1)
  ELSE {<<c>> \o rest : c \in CategorizeAny(NewFile(f, entries[i])),
                        rest \in ScanFrom(f, entries, bad, i + 1)}

scanDir(f, bad) ==
  UNION {ScanFrom(f, entries, bad, 1) : entries \in {ReadDir(f, dirPath)}}

\* the skip warnings scanDir prints, in order
ScanWarnings(f, bad) == SelectSeq(ReadDir(f, dirPath), LAMBDA n : n \in bad)

MkdirAllStat_ErrIfExists(f, p) ==
  IF p \in DOMAIN f THEN "notdir" ELSE "absent"

\* os.MkdirAll, first half: stat the path
\*   "ok"     the path is a directory already
\*   "notdir" the path exists and is not a directory
\*   "absent" the path must be created
MkdirAllStat(f, p) ==
  IF IsDirAt(f, p) THEN "ok"
  ELSE IF p \in DOMAIN f THEN "notdir"
  ELSE "absent"

MkdirAllMake_NoRetry(f, p) ==
  IF p \notin DOMAIN f THEN [err |-> Nil, fs |-> (p :> DirNode) @@ f]
  ELSE [err |-> <<"file exists">>, fs |-> f]

\* os.MkdirAll, second half: mkdir, and on failure accept a directory that
\* someone else created in the meantime
MkdirAllMake(f, p) ==
  IF p \notin DOMAIN f THEN [err |-> Nil, fs |-> (p :> DirNode) @@ f]
  ELSE IF IsDirAt(f, p) THEN [err |-> Nil, fs |-> f]
  ELSE [err |-> <<"file exists">>, fs |-> f]

Rename_KeepsSource(f, old, new) ==
  IF old \notin DOMAIN f THEN [err |-> <<"no such file or directory">>, fs |-> f]
  ELSE IF ~IsDirAt(f, Dir(new)) THEN [err |-> <<"not a directory">>, fs |-> f]
  ELSE IF IsDirAt(f, new) THEN [err |-> <<"file exists">>, fs |-> f]
  ELSE [err |-> Nil, fs |-> (new :> f[old]) @@ f]

Rename_DropsSourceOnError(f, old, new) ==
  IF old \notin DOMAIN f THEN [err |-> <<"no such file or directory">>, fs |-> f]
  ELSE IF ~IsDirAt(f, Dir(new)) THEN [err |-> <<"not a directory">>, fs |-> f]
  ELSE IF IsDirAt(f, new)
    THEN [err |-> <<"file exists">>, fs |-> [p \in DOMAIN f \ {old} |-> f[p]]]
  ELSE [err |-> Nil,
        fs  |-> [p \in (DOMAIN f \ {old}) \cup {new} |->
                   IF p = new THEN f[old] ELSE f[p]]]

\* os.Rename of a file
Rename(f, old, new) ==
  IF old \notin DOMAIN f THEN [err |-> <<"no such file or directory">>, fs |-> f]
  ELSE IF ~IsDirAt(f, Dir(new)) THEN [err |-> <<"not a directory">>, fs |-> f]
  ELSE IF IsDirAt(f, new) THEN [err |-> <<"file exists">>, fs |-> f]
  ELSE [err |-> Nil,
        fs  |-> [p \in (DOMAIN f \ {old}) \cup {new} |->
                   IF p = new THEN f[old] ELSE f[p]]]

\* ----------------------------------------------------------------- state
VARIABLES
  fs,          \* the filesystem under -dir
  fs0,         \* the filesystem when the run started (history)
  dryRun,      \* the -dry-run flag
  listable,    \* whether os.ReadDir of -dir succeeds
  unreadable,  \* names whose entry.Info() fails
  faults,      \* system calls refused so far by the host
  mainpc,      \* position of main
  files,       \* the records returned by scanDir
  warnings,    \* names scanDir skipped with a warning
  launched,    \* goroutines started by the loop of main
  pc,          \* position of every task
  res,         \* what processFile returned in every task
  wg,          \* the WaitGroup counter
  closerpc,    \* position of the closer goroutine
  closed,      \* errorChan is closed
  printed,     \* names in the failure reports printed by main, in order
  complete,    \* "Processing complete!" was printed
  exitCode,    \* exit status of the process, -1 while it runs
  run,         \* 1 in the first run over the directory, 2 in a repeated run
  prev,        \* records and results of the run before this one (history)
  probe        \* a File value handed directly to Categorize and isFileValid

vars == <<fs, fs0, dryRun, listable, unreadable, faults, mainpc, files,
          warnings, launched, pc, res, wg, closerpc, closed, printed, complete,
          exitCode, run, prev, probe>>

Universe == {N_blank, N_Docs, N_Other, N_aPDF, N_bpdf, N_cjpg}

\* what an entry of each name can be when the run starts
KindsOf ==
  (N_blank :> {FileNode(1, <<N_blank>>)}) @@
  (N_Docs  :> {FileNode(1, <<N_Docs>>), DirNode}) @@
  (N_Other :> {FileNode(1, <<N_Other>>)}) @@
  (N_aPDF  :> {FileNode(1, <<N_aPDF>>), FileNode(0, <<N_aPDF>>)}) @@
  (N_bpdf  :> {FileNode(1, <<N_bpdf>>), FileNode(0, <<N_bpdf>>), DirNode}) @@
  (N_cjpg  :> {FileNode(1, <<N_cjpg>>)})

\* what a Docs directory that exists already can hold
NestedOf ==
  {<<>>,
   (<<N_Docs, N_bpdf>> :> FileNode(1, <<N_Docs, N_bpdf>>)),
   (<<N_Docs, N_bpdf>> :> DirNode)}

InitialFilesystems ==
  UNION {
    UNION {
      {[p \in {<<n>> : n \in S} \cup DOMAIN nested |->
          IF p \in DOMAIN nested THEN nested[p] ELSE top[p[1]]] :
         nested \in IF N_Docs \in S /\ top[N_Docs] = DirNode
                    THEN NestedOf ELSE {<<>>}} :
      top \in {t \in [S -> UNION {KindsOf[n] : n \in S}] :
                 \A n \in S : t[n] \in KindsOf[n]}} :
    S \in {T \in SUBSET Universe : Cardinality(T) <= MaxEntries}}

Tasks == DOMAIN pc

\* no run came before the first one
NoRun == [files |-> <<>>, res |-> <<>>]

\* no File value is being probed during a run of the program
NoProbe == [stage |-> "none"]

Init ==
  /\ fs \in InitialFilesystems
  /\ fs0 = fs
  /\ dryRun \in BOOLEAN
  /\ listable \in BOOLEAN
  /\ unreadable \in {B \in SUBSET {p[1] : p \in {q \in DOMAIN fs : Len(q) = 1}} :
                       Cardinality(B) <= MaxUnreadable}
  /\ faults = 0
  /\ mainpc = "scan"
  /\ files = <<>>
  /\ warnings = <<>>
  /\ launched = 0
  /\ pc = <<>>
  /\ res = <<>>
  /\ wg = 0
  /\ closerpc = "idle"
  /\ closed = FALSE
  /\ printed = <<>>
  /\ complete = FALSE
  /\ exitCode = -1
  /\ run = 1
  /\ prev = NoRun
  /\ probe = NoProbe

\* ------------------------------------------------------------------ main
ScanFails_Ignored == FALSE

\* lines 69-72 and 143: os.ReadDir, and with it scanDir, returns an error
ScanFails == ~listable

\* lines 142-145: scanDir, log.Fatal on error
MainScan ==
  /\ mainpc = "scan"
  /\ IF ScanFails
     THEN /\ mainpc' = "fatal"
          /\ exitCode' = 1
          /\ UNCHANGED <<files, warnings, pc, res>>
     ELSE /\ files' \in scanDir(fs, unreadable)
          /\ warnings' = ScanWarnings(fs, unreadable)
          /\ pc' = [t \in 1..Len(files') |-> "unborn"]
          /\ res' = [t \in 1..Len(files') |-> Nil]
          /\ mainpc' = "launch"
          /\ UNCHANGED exitCode
  /\ UNCHANGED <<fs, fs0, dryRun, listable, unreadable, faults, launched, wg,
                 closerpc, closed, printed, complete>>
  /\ UNCHANGED <<run, prev, probe>>

\* lines 152-160: one iteration of the loop, wg.Add(1) and the go statement
MainLaunch ==
  /\ mainpc = "launch"
  /\ launched < Len(files)
  /\ wg' = wg + 1
  /\ launched' = launched + 1
  /\ pc' = [pc EXCEPT ![launched + 1] = "start"]
  /\ UNCHANGED <<fs, fs0, dryRun, listable, unreadable, faults, mainpc, files,
                 warnings, res, closerpc, closed, printed, complete>>
  /\ UNCHANGED <<exitCode, run, prev, probe>>

\* lines 163-166: the go statement of the closer, after the loop
MainSpawnCloser ==
  /\ mainpc = "launch"
  /\ launched = Len(files)
  /\ closerpc' = "wait"
  /\ mainpc' = "range"
  /\ UNCHANGED <<fs, fs0, dryRun, listable, unreadable, faults, files, warnings,
                 launched, pc, res, wg, closed, printed, complete>>
  /\ UNCHANGED <<exitCode, run, prev, probe>>

RangeReceives_AfterClose(t) == mainpc = "range" /\ closed /\ pc[t] = "send"

\* line 169: main is parked on the receive and task t is parked on the send
RangeReceives(t) == mainpc = "range" /\ ~closed /\ pc[t] = "send"

\* lines 157, 169-171: the unbuffered channel hands the failure of task t
\* over to main, which prints it; the task goes on to its deferred wg.Done
MainReceive(t) ==
  /\ RangeReceives(t)
  /\ printed' = Append(printed, <<files[t].Name>> \o res[t])
  /\ pc' = [pc EXCEPT ![t] = "exit"]
  /\ UNCHANGED <<fs, fs0, dryRun, listable, unreadable, faults, mainpc, files,
                 warnings, launched, res, wg, closerpc, closed, complete>>
  /\ UNCHANGED <<exitCode, run, prev, probe>>

RangeEnds_Early == TRUE

\* line 169: the range loop ends when the channel is closed
RangeEnds == closed

\* lines 169-173: the range ends on the closed channel; completion message
MainComplete ==
  /\ mainpc = "range"
  /\ RangeEnds
  /\ complete' = TRUE
  /\ mainpc' = "done"
  /\ UNCHANGED <<fs, fs0, dryRun, listable, unreadable, faults, files, warnings,
                 launched, pc, res, wg, closerpc, closed, printed>>
  /\ exitCode' = 0
  /\ UNCHANGED <<run, prev, probe>>

\* ---------------------------------------------------------------- closer
WaitReturns_NoBarrier == TRUE

\* line 164: wg.Wait returns
WaitReturns == wg = 0

\* lines 164-165
CloserClose ==
  /\ closerpc = "wait"
  /\ WaitReturns
  /\ closed' = TRUE
  /\ closerpc' = "closed"
  /\ UNCHANGED <<fs, fs0, dryRun, listable, unreadable, faults, mainpc, files,
                 warnings, launched, pc, res, wg, printed, complete>>
  /\ UNCHANGED <<exitCode, run, prev, probe>>

\* ----------------------------------------------------------------- tasks
SendsFailure_Always(err) == TRUE

\* line 156: the goroutine sends only a non-nil error
SendsFailure(err) == err # Nil

\* processFile returns err to the goroutine body of task t
Return(t, err) ==
  /\ res' = [res EXCEPT ![t] = err]
  /\ pc' = [pc EXCEPT ![t] = IF SendsFailure(err) THEN "send" ELSE "exit"]

Applies_Always(dry) == TRUE

\* line 113: the branch that touches the filesystem
Applies(dry) == ~dry

\* lines 117 and 122
destDir(f) == Join(Dir(f.Path), f.Category)

destPath(f) == Join(destDir(f), f.Name)

SkipsDirectory_Never(f) == FALSE

\* line 105: directories are skipped
SkipsDirectory(f) == f.IsDir

\* lines 105-115: directory check, validation, preview
TaskStart(t) ==
  /\ pc[t] = "start"
  /\ IF SkipsDirectory(files[t]) THEN Return(t, Nil)
     ELSE IF isFileValid(files[t]) # Nil THEN Return(t, isFileValid(files[t]))
     ELSE IF Applies(dryRun) THEN pc' = [pc EXCEPT ![t] = "stat"] /\ UNCHANGED res
     ELSE Return(t, Nil)
  /\ UNCHANGED <<fs, fs0, dryRun, listable, unreadable, faults, mainpc, files,
                 warnings, launched, wg, closerpc, closed, printed, complete>>
  /\ UNCHANGED <<exitCode, run, prev, probe>>

\* line 118, os.MkdirAll up to its stat
TaskMkdirAllStat(t) ==
  /\ pc[t] = "stat"
  /\ \/ /\ MkdirAllStat(fs, destDir(files[t])) = "ok"
        /\ pc' = [pc EXCEPT ![t] = "rename"]
        /\ UNCHANGED <<res, faults>>
     \/ /\ MkdirAllStat(fs, destDir(files[t])) = "absent"
        /\ pc' = [pc EXCEPT ![t] = "mkdir"]
        /\ UNCHANGED <<res, faults>>
     \/ /\ MkdirAllStat(fs, destDir(files[t])) = "notdir"
        /\ Return(t, <<"failed to create directory", "not a directory">>)
        /\ UNCHANGED faults
     \/ /\ faults < MaxFaults
        /\ faults' = faults + 1
        /\ Return(t, <<"failed to create directory", "permission denied">>)
  /\ UNCHANGED <<fs, fs0, dryRun, listable, unreadable, mainpc, files,
                 warnings, launched, wg, closerpc, closed, printed, complete>>
  /\ UNCHANGED <<exitCode, run, prev, probe>>

\* lines 118-120, os.MkdirAll from its mkdir on
TaskMkdirAllMake(t) ==
  /\ pc[t] = "mkdir"
  /\ LET r == MkdirAllMake(fs, destDir(files[t]))
     IN  /\ fs' = r.fs
         /\ IF r.err # Nil
            THEN Return(t, <<"failed to create directory">> \o r.err)
            ELSE pc' = [pc EXCEPT ![t] = "rename"] /\ UNCHANGED res
  /\ UNCHANGED <<fs0, dryRun, listable, unreadable, faults, mainpc, files,
                 warnings, launched, wg, closerpc, closed, printed, complete>>
  /\ UNCHANGED <<exitCode, run, prev, probe>>

\* lines 122-127
TaskRename(t) ==
  /\ pc[t] = "rename"
  /\ \/ LET r == Rename(fs, files[t].Path, destPath(files[t]))
        IN  /\ fs' = r.fs
            /\ Return(t, IF r.err # Nil THEN <<"failed to move file">> \o r.err
                         ELSE Nil)
            /\ UNCHANGED faults
     \/ /\ faults < MaxFaults
        /\ faults' = faults + 1
        /\ Return(t, <<"failed to move file", "permission denied">>)
        /\ UNCHANGED fs
  /\ UNCHANGED <<fs0, dryRun, listable, unreadable, mainpc, files,
                 warnings, launched, wg, closerpc, closed, printed, complete>>
  /\ UNCHANGED <<exitCode, run, prev, probe>>

\* line 155: the deferred wg.Done
TaskExit(t) ==
  /\ pc[t] = "exit"
  /\ wg' = wg - 1
  /\ pc' = [pc EXCEPT ![t] = "done"]
  /\ UNCHANGED <<fs, fs0, dryRun, listable, unreadable, faults, mainpc, files,
                 warnings, launched, res, closerpc, closed, printed, complete>>
  /\ UNCHANGED <<exitCode, run, prev, probe>>

TaskStep(t) ==
  \/ TaskStart(t)
  \/ TaskMkdirAllStat(t)
  \/ TaskMkdirAllMake(t)
  \/ TaskRename(t)
  \/ TaskExit(t)

MainStep ==
  \/ MainScan
  \/ MainLaunch
  \/ MainSpawnCloser
  \/ \E t \in Tasks : MainReceive(t)
  \/ MainComplete

Next ==
  \/ MainStep
  \/ CloserClose
  \/ \E t \in Tasks : TaskStep(t)

Spec == Init /\ [][Next]_vars

\* the program is started again, with the same flags, on the directory the
\* first run left
MainRerun ==
  /\ mainpc = "done"
  /\ run = 1
  /\ run' = 2
  /\ prev' = [files |-> files, res |-> res]
  /\ fs0' = fs
  /\ mainpc' = "scan"
  /\ files' = <<>>
  /\ warnings' = <<>>
  /\ launched' = 0
  /\ pc' = <<>>
  /\ res' = <<>>
  /\ wg' = 0
  /\ closerpc' = "idle"
  /\ closed' = FALSE
  /\ printed' = <<>>
  /\ complete' = FALSE
  /\ exitCode' = -1
  /\ UNCHANGED <<fs, dryRun, listable, unreadable, faults, probe>>

RerunSpec == Init /\ [][Next \/ MainRerun]_vars

\* the Go scheduler runs every runnable goroutine eventually
FairSpec ==
  /\ Spec
  /\ WF_vars(MainStep)
  /\ WF_vars(CloserClose)
  /\ \A t \in 1..MaxEntries : WF_vars(t \in Tasks /\ TaskStep(t))

\* ---------------------------------------------------------- direct calls
\* Categorize and isFileValid applied to File values that no directory scan
\* produces (empty name, negative size, any extension).
TableExts ==
  UNION {{Categories[c][k] : k \in 1..Len(Categories[c])} : c \in DOMAIN Categories}

ProbeExts ==
  TableExts \cup {<<>>, <<".", "x", "y", "z">>, <<".", "P", "D", "F">>,
                  <<".", "p", "d">>, <<"p", "d", "f">>}

ProbeNames == {<<>>, <<" ">>, <<" ", "\t">>, N_aPDF}

ProbeFiles ==
  {[Name      |-> n,
    Path      |-> Join(dirPath, n),
    Size      |-> z,
    IsDir     |-> b,
    Category  |-> <<>>,
    Extension |-> e] :
     n \in ProbeNames, z \in {-1, 0, 1}, b \in BOOLEAN, e \in ProbeExts}

InitProbe ==
  /\ probe \in {[stage |-> "new", f |-> x, err |-> Nil] : x \in ProbeFiles}
  /\ fs = <<>>
  /\ fs0 = <<>>
  /\ dryRun = FALSE
  /\ listable = TRUE
  /\ unreadable = {}
  /\ faults = 0
  /\ mainpc = "probe"
  /\ files = <<>>
  /\ warnings = <<>>
  /\ launched = 0
  /\ pc = <<>>
  /\ res = <<>>
  /\ wg = 0
  /\ closerpc = "idle"
  /\ closed = FALSE
  /\ printed = <<>>
  /\ complete = FALSE
  /\ exitCode = -1
  /\ run = 1
  /\ prev = NoRun

\* lines 36-51: f.Categorize()
ProbeCategorize ==
  /\ probe.stage = "new"
  /\ \E g \in CategorizeAny(probe.f) :
       probe' = [probe EXCEPT !.f = g, !.stage = "categorized"]
  /\ UNCHANGED <<fs, fs0, dryRun, listable, unreadable, faults, mainpc, files,
                 warnings, launched, pc, res, wg, closerpc, closed, printed,
                 complete, exitCode, run, prev>>

\* lines 54-65: isFileValid(f)
ProbeValidate ==
  /\ probe.stage = "categorized"
  /\ probe' = [probe EXCEPT !.err = isFileValid(probe.f), !.stage = "validated"]
  /\ UNCHANGED <<fs, fs0, dryRun, listable, unreadable, faults, mainpc, files,
                 warnings, launched, pc, res, wg, closerpc, closed, printed,
                 complete, exitCode, run, prev>>

\* the runs of the program together with the direct calls
ProbeSpec ==
  (Init \/ InitProbe) /\ [][Next \/ ProbeCategorize \/ ProbeValidate]_vars

\* ---------------------------------------------------------- vocabulary
\* a record that passes the checks the validator is meant to make
ValidRecord(f) == ~f.IsDir /\ TrimSpace(f.Name) # <<>> /\ f.Size > 0

InvalidRecord(f) == ~f.IsDir /\ ~ValidRecord(f)

\* processFile has returned in task t
Returned(t) == pc[t] \in {"send", "exit", "done"}

Failed(t) == Returned(t) /\ res[t] # Nil

\* the file record t was scanned from sits at path p
RecordAt(f, t, p) == p \in DOMAIN f /\ f[p] = FileNode(files[t].Size, files[t].Path)

\* record t sits at parent/category/name and no longer at parent/name
Relocated(t) ==
  /\ RecordAt(fs, t, <<files[t].Category, files[t].Name>>)
  /\ ~RecordAt(fs, t, <<files[t].Name>>)

\* the failure reports printed for record t
ReportsOf(t) == {i \in 1..Len(printed) : printed[i][1] = files[t].Name}

ScanSucceeded == mainpc \in {"launch", "range", "done"}

\* everything that was under directory d when the run started is still there
KeepsContents(d) ==
  \A p \in DOMAIN fs0 : (Len(p) = Len(d) + 1 /\ Dir(p) = d) => p \in DOMAIN fs

\* ----------------------------------------------------------------- C1
\* C1: once the scan has succeeded, the run reaches the completion message,
\* for any number of records and of failing tasks, when tasks, closer and
\* main are scheduled fairly.
C1_CompletesAfterScan == ScanSucceeded ~> (complete /\ mainpc = "done")

\* a run with several failing tasks has printed its completion message
C1_Witness ==
  /\ complete
  /\ mainpc = "done"
  /\ Len(printed) >= 2

\* ----------------------------------------------------------------- C2
\* C2: when the completion message is out, every task whose processFile
\* returned an error has exactly one report, carrying its record's name and
\* its error, and a task that succeeded has none.
C2_ReportsExact ==
  complete =>
    /\ \A t \in Tasks :
         /\ Cardinality(ReportsOf(t)) = IF res[t] # Nil THEN 1 ELSE 0
         /\ \A i \in ReportsOf(t) : printed[i] = <<files[t].Name>> \o res[t]
    /\ \A i \in 1..Len(printed) : \E t \in Tasks : i \in ReportsOf(t)

C2_Witness ==
  /\ complete
  /\ \E t \in Tasks : res[t] # Nil /\ Cardinality(ReportsOf(t)) = 1
  /\ \E t \in Tasks : res[t] = Nil /\ ValidRecord(files[t])

\* ----------------------------------------------------------------- C3
\* C3: the failure stream is closed only when every record's task has been
\* launched and has finished, so no task is sending or yet to send.
C3_CloseAfterAllTasks ==
  closed => /\ launched = Len(files)
            /\ \A t \in Tasks : pc[t] = "done"

C3_Witness ==
  /\ closed
  /\ Len(files) >= 2
  /\ printed # <<>>

\* ----------------------------------------------------------------- C4
\* C4: in preview mode the filesystem is, in every state of the run, the
\* one the run started with.
C4_PreviewKeepsFilesystem == dryRun => fs = fs0

C4_Witness ==
  /\ dryRun
  /\ complete
  /\ \E t \in Tasks : ValidRecord(files[t])
  /\ \E t \in Tasks : InvalidRecord(files[t])

\* ----------------------------------------------------------------- C5
\* C5 as stated: in apply mode every valid non-directory record that has
\* been processed sits at parent/category/name and no longer at parent/name.
C5_AlwaysRelocated ==
  \A t \in Tasks :
    (~dryRun /\ ValidRecord(files[t]) /\ Returned(t)) => Relocated(t)

\* C5 amended: in apply mode a valid non-directory record whose processFile
\* returned nil sits at parent/category/name and no longer at parent/name,
\* the category directory is a directory and no entry that was in it has
\* gone; a record whose processFile returned an error is still at
\* parent/name.
C5_RelocatedOnSuccess ==
  \A t \in Tasks :
    (~dryRun /\ ValidRecord(files[t]) /\ Returned(t)) =>
      IF res[t] = Nil
      THEN /\ Relocated(t)
           /\ IsDirAt(fs, <<files[t].Category>>)
           /\ KeepsContents(<<files[t].Category>>)
      ELSE RecordAt(fs, t, <<files[t].Name>>)

\* a record was moved into a category directory that existed already and
\* held another entry
C5_Witness ==
  /\ ~dryRun
  /\ \E t \in Tasks :
       /\ ValidRecord(files[t]) /\ Returned(t) /\ res[t] = Nil
       /\ IsDirAt(fs0, <<files[t].Category>>)
       /\ \E p \in DOMAIN fs0 :
            Dir(p) = <<files[t].Category>> /\ p # destPath(files[t])

\* ----------------------------------------------------------------- C6
\* C6: a non-directory record that fails validation never reaches the
\* directory creation or the move, gets the validation error as the result
\* of processFile, and no step of its task changes the filesystem, in both
\* modes.
C6_InvalidNeverMutates ==
  /\ [](\A t \in Tasks :
          InvalidRecord(files[t]) =>
            /\ pc[t] \notin {"stat", "mkdir", "rename"}
            /\ Returned(t) =>
                 res[t] \in {<<"filename cannot be empty">>,
                             <<"file size must be positive">>}
            /\ files[t].Path \in DOMAIN fs0
                 => RecordAt(fs, t, files[t].Path))
  /\ [][\A t \in Tasks :
          (InvalidRecord(files[t]) /\ pc'[t] # pc[t]) => fs' = fs]_vars

\* an invalid record has been processed while a sibling moved its file
C6_Witness ==
  /\ \E t \in Tasks : InvalidRecord(files[t]) /\ Returned(t) /\ res[t] # Nil
  /\ fs # fs0

\* ----------------------------------------------------------------- C7
CreationFailed(t) ==
  Returned(t) /\ res[t] # Nil /\ res[t][1] = "failed to create directory"

\* valid records only, at least two of them with the same category
SeveralShareCategory ==
  /\ \A t \in Tasks : ValidRecord(files[t])
  /\ \E t, u \in Tasks : t # u /\ files[t].Category = files[u].Category

\* C7 as stated: with valid records of which several share a category, and
\* a host that refuses nothing, no task gets an error from the creation of
\* its destination directory, and at the end every record is relocated or
\* reported.
C7_CreationNeverFails ==
  (~dryRun /\ faults = 0 /\ SeveralShareCategory) =>
    /\ \A t \in Tasks : ~CreationFailed(t)
    /\ complete => \A t \in Tasks : Relocated(t) \/ ReportsOf(t) # {}

\* C7 amended: the creation of a destination directory never fails because
\* the directory exists already, whatever the interleaving; it fails only
\* when the host refuses the call or when the category path was occupied by
\* a non-directory entry when the run started; at the end every valid
\* record is relocated or reported as failed.
C7_CreationToleratesRaces ==
  ~dryRun =>
    /\ \A t \in Tasks :
         CreationFailed(t) =>
           \/ res[t][2] = "permission denied"
           \/ res[t][2] = "not a directory" /\ IsFileAt(fs0, destDir(files[t]))
    /\ complete =>
         \A t \in Tasks :
           ValidRecord(files[t]) => Relocated(t) \/ ReportsOf(t) # {}

\* two tasks are between the stat and the mkdir of the same directory
C7_Witness ==
  /\ ~dryRun
  /\ \E t, u \in Tasks :
       /\ t # u
       /\ pc[t] = "mkdir" /\ pc[u] = "exit"
       /\ destDir(files[t]) = destDir(files[u])
       /\ ~IsDirAt(fs0, destDir(files[t]))
       /\ res[u] = Nil

C10_SendNeverWaits ==
  \A t \in Tasks : pc[t] = "send" => mainpc = "range"

\* ---------------------------------------------------------------- C11
\* C11: in apply mode an entry that was in a category directory when the
\* run started is still there, unchanged, whatever is moved into that
\* directory.
C11_DuplicateKept ==
  ~dryRun =>
    \A p \in DOMAIN fs0 : Len(p) = 2 => (p \in DOMAIN fs /\ fs[p] = fs0[p])

\* ---------------------------------------------------------------- C12
\* C12: a directory record never reaches validation failure, directory
\* creation or move; processFile returns nil for it; no step of its task
\* changes the filesystem, and the directory stays at its path, in both
\* modes.
C12_DirectoriesUntouched ==
  /\ [](\A t \in Tasks :
          files[t].IsDir =>
            /\ pc[t] \notin {"stat", "mkdir", "rename", "send"}
            /\ res[t] = Nil
            /\ IsDirAt(fs, files[t].Path))
  /\ [][\A t \in Tasks :
          (files[t].IsDir /\ pc'[t] # pc[t]) => fs' = fs]_vars

\* an apply run ended with a directory named like a category still in place
\* after a file was moved
C12_Witness ==
  /\ complete /\ ~dryRun
  /\ fs # fs0
  /\ \E t \in Tasks :
       files[t].IsDir /\ files[t].Name \in DOMAIN Categories /\ pc[t] = "done"

\* ---------------------------------------------------------------- C13
\* C13: when the directory cannot be listed the run goes from the scan
\* straight to a fatal exit with status 1: no record, no task, no change of
\* the filesystem, no report and no completion message.
C13_ScanFailureAborts ==
  ~listable =>
    /\ mainpc \in {"scan", "fatal"}
    /\ files = <<>> /\ warnings = <<>>
    /\ Tasks = {} /\ launched = 0 /\ wg = 0 /\ closerpc = "idle"
    /\ fs = fs0
    /\ printed = <<>> /\ ~complete
    /\ exitCode = IF mainpc = "fatal" THEN 1 ELSE -1

C13_Witness ==
  /\ ~listable
  /\ mainpc = "fatal"
  /\ exitCode = 1
  /\ DOMAIN fs # {}

\* ---------------------------------------------------------------- C14
\* the names directly under the scanned directory
TopNames(f) == {p[1] : p \in {q \in DOMAIN f : Len(q) = 1}}

\* C14: a successful scan returns exactly one record for every entry whose
\* metadata is readable and prints exactly one warning for every entry whose
\* metadata read fails.
C14_ScanCounts ==
  ScanSucceeded =>
    /\ Len(files) = Cardinality(TopNames(fs0) \ unreadable)
    /\ {files[i].Name : i \in 1..Len(files)} = TopNames(fs0) \ unreadable
    /\ Len(warnings) = Cardinality(unreadable)
    /\ {warnings[i] : i \in 1..Len(warnings)} = unreadable

\* an unreadable entry came before a readable one in the listing
C14_Witness ==
  /\ ScanSucceeded
  /\ warnings # <<>>
  /\ \E i \in 1..Len(files) : NameLess(warnings[1], files[i].Name)

\* ---------------------------------------------------------------- C15
Categorized == probe.stage \in {"categorized", "validated"}

\* C15: a non-directory record gets exactly the category whose extension
\* list holds its extension, and "Other" when no list holds it, the empty
\* extension included.
C15_CategoryOfExtension ==
  (Categorized /\ ~probe.f.IsDir) =>
    /\ \A c \in DOMAIN Categories :
         (\E k \in 1..Len(Categories[c]) : Categories[c][k] = probe.f.Extension)
           => probe.f.Category = c
    /\ (\A c \in DOMAIN Categories :
          \A k \in 1..Len(Categories[c]) : Categories[c][k] # probe.f.Extension)
         => probe.f.Category = L_Other

\* the last extension of the last list was classified
C15_Witness ==
  /\ Categorized
  /\ ~probe.f.IsDir
  /\ probe.f.Extension = <<".", "o", "g", "g">>
  /\ probe.f.Category = L_Audio

\* ---------------------------------------------------------------- C16
Blank(name) == \A i \in 1..Len(name) : name[i] \in WhiteSpace

\* C16: isFileValid accepts every directory record, rejects a non-directory
\* record whose name is empty or all whitespace or whose size is zero or
\* negative, and accepts every other one; in an apply run a zero-byte file
\* stays where it is and is reported as failed.
C16_ValidationRule ==
  /\ probe.stage = "validated" =>
       IF probe.f.IsDir THEN probe.err = Nil
       ELSE IF Blank(probe.f.Name) \/ probe.f.Size <= 0 THEN probe.err # Nil
       ELSE probe.err = Nil
  /\ \A t \in Tasks :
       (~dryRun /\ ~files[t].IsDir /\ files[t].Size = 0) =>
         /\ RecordAt(fs, t, files[t].Path)
         /\ Returned(t) => res[t] # Nil
         /\ complete => ReportsOf(t) # {}

\* a zero-byte file with a proper name was rejected
C16_Witness ==
  /\ probe.stage = "validated"
  /\ ~probe.f.IsDir
  /\ probe.f.Name = N_aPDF
  /\ probe.f.Size = 0
  /\ probe.err = <<"file size must be positive">>

\* ---------------------------------------------------------------- C17
MoveFailed(t) ==
  Returned(t) /\ res[t] # Nil /\ res[t][1] = "failed to move file"

\* C17: in apply mode a record whose directory creation or move failed has
\* a non-nil result and is still at its original path and not at its
\* destination; and a step of a task changes the filesystem only by creating
\* that task's destination directory or by a move that succeeds, so a failed
\* call leaves at most the destination directory behind.
C17_FailureLeavesSource ==
  /\ [](\A t \in Tasks :
          (~dryRun /\ (CreationFailed(t) \/ MoveFailed(t))) =>
            /\ res[t] # Nil
            /\ RecordAt(fs, t, files[t].Path)
            /\ ~RecordAt(fs, t, destPath(files[t])))
  /\ [][\A t \in Tasks :
          (pc'[t] # pc[t] /\ fs' # fs) =>
            \/ /\ pc[t] = "mkdir"
               /\ destDir(files[t]) \notin DOMAIN fs
               /\ fs' = (destDir(files[t]) :> DirNode) @@ fs
            \/ /\ pc[t] = "rename"
               /\ res'[t] = Nil]_vars

\* a move failed after its destination directory had been newly created,
\* and the directory is there, empty
C17_Witness ==
  /\ ~dryRun
  /\ \E t \in Tasks :
       /\ MoveFailed(t)
       /\ destDir(files[t]) \notin DOMAIN fs0
       /\ IsDirAt(fs, destDir(files[t]))
       /\ \A p \in DOMAIN fs : Len(p) = 2 => Dir(p) # destDir(files[t])
       /\ RecordAt(fs, t, files[t].Path)

\* ---------------------------------------------------------------- C18
\* record i of the run before failed in its directory creation or its move
FailedToApply(i) ==
  /\ prev.res[i] # Nil
  /\ prev.res[i][1] \in {"failed to create directory", "failed to move file"}

\* C18 as stated: a second apply run, on a host that refuses nothing,
\* changes nothing in the filesystem the first run left.
C18_SecondRunChangesNothing ==
  (run = 2 /\ ~dryRun /\ faults = 0) => fs = fs0

\* C18 amended: in a second apply run the category directories are skipped
\* and stay, nothing that sits in a category directory leaves it, no
\* directory creation fails because the directory exists, the only entries
\* that move are files whose directory creation or move failed in the first
\* run, and the run changes nothing when the first run had no such failure.
C18_SecondRunRetriesOnly ==
  (run = 2 /\ ~dryRun) =>
    /\ \A p \in DOMAIN fs0 :
         \/ p \in DOMAIN fs /\ fs[p].kind = fs0[p].kind
         \/ /\ Len(p) = 1
            /\ fs0[p].kind = "file"
            /\ \E i \in DOMAIN prev.files :
                 prev.files[i].Path = p /\ FailedToApply(i)
    /\ \A t \in Tasks :
         CreationFailed(t) =>
           \/ res[t][2] = "permission denied"
           \/ res[t][2] = "not a directory" /\ IsFileAt(fs0, destDir(files[t]))
    /\ (\A i \in DOMAIN prev.files : ~FailedToApply(i)) => fs = fs0

\* a second run ended without a change: it skipped a category directory the
\* first run had created and failed again on a record that had failed
C18_Witness ==
  /\ run = 2 /\ ~dryRun /\ complete
  /\ fs = fs0
  /\ \E t \in Tasks :
       /\ files[t].IsDir
       /\ \A i \in DOMAIN prev.files : prev.files[i].Name # files[t].Name
  /\ \E t \in Tasks : \E i \in DOMAIN prev.files :
       prev.files[i].Name = files[t].Name /\ prev.res[i] # Nil /\ res[t] = prev.res[i]

\* ---------------------------------------------------------------- C19
\* C19: no extension is listed under two categories, and the category a
\* record got is the one Categorize gives under every iteration order of the
\* table.
C19_OrderIndependent ==
  /\ \A c, e \in DOMAIN Categories :
       c # e => \A k \in 1..Len(Categories[c]) : \A l \in 1..Len(Categories[e]) :
                  Categories[c][k] # Categories[e][l]
  /\ Categorized =>
       \A o \in IterOrders : Categorize(probe.f, o).Category = probe.f.Category

\* a file with an extension of the table was classified
C19_Witness ==
  /\ Categorized
  /\ ~probe.f.IsDir
  /\ probe.f.Extension = <<".", "m", "d">>
  /\ probe.f.Category = L_Docs

\* ---------------------------------------------------------------- C20
\* C20: every record of a successful scan has a non-blank category, which is
\* "Folder" exactly when the record is a directory, and for a file is a
\* label of the table or "Other".
C20_ScannedCategories ==
  ScanSucceeded =>
    \A i \in 1..Len(files) :
      /\ ~Blank(files[i].Category)
      /\ files[i].Category = L_Folder <=> files[i].IsDir
      /\ ~files[i].IsDir => files[i].Category \in DOMAIN Categories \cup {L_Other}

\* a directory whose name ends in a table extension was scanned with a file
C20_Witness ==
  /\ ScanSucceeded
  /\ \E i \in 1..Len(files) :
       files[i].IsDir /\ files[i].Extension = <<".", "p", "d", "f">>
  /\ \E i \in 1..Len(files) : ~files[i].IsDir /\ files[i].Category = L_Docs

====
